---- MODULE Spec2Model ----
(***************************************************************************)
(* mcstrings: extract / patch / compact on a Minecraft region file.        *)
(*                                                                         *)
(* The world of the model is one region file, r.0.0.mca of dimension 0:    *)
(* its location table (locs), its 4096-byte sectors (sec) and its length   *)
(* in bytes (fsize).  The patch engine keeps one loaded chunk, the         *)
(* shouldCompact flag and its CSV reader.  Strings that the code parses or *)
(* formats (NBT paths, integer fields) are sequences of one-character      *)
(* strings; string values of NBT leaves are tokens with a byte length.     *)
(***************************************************************************)
EXTENDS Integers, Sequences, FiniteSets, TLC

\* ------------------------------------------------------------------------
\* Bounds of the model
\* ------------------------------------------------------------------------
MaxRuns == 2
MaxRecs == 2

\* ------------------------------------------------------------------------
\* Program constants
\* ------------------------------------------------------------------------
SectorSize == 4096
RegionWidth == 32
MaxSectorCount == 255
StartLimit == 16777216
WrapSectors == 4096

Min(a, b) == IF a < b THEN a ELSE b
Max(a, b) == IF a > b THEN a ELSE b

\* ------------------------------------------------------------------------
\* Characters and strings (sequences of one-character strings)
\* ------------------------------------------------------------------------
Digits == <<"0", "1", "2", "3", "4", "5", "6", "7", "8", "9">>

IsDigit(c) == \E d \in 1..10 : Digits[d] = c

DigitVal(c) == (CHOOSE d \in 1..10 : Digits[d] = c) - 1

\* Byte value of a character, for sort.Strings.
CharCode(c) ==
    CASE c = "-" -> 45
      [] c = "/" -> 47
      [] IsDigit(c) -> 48 + DigitVal(c)
      [] c = "[" -> 91
      [] c = "]" -> 93
      [] c = "a" -> 97
      [] c = "d" -> 100
      [] c = "i" -> 105
      [] c = "m" -> 109
      [] c = "n" -> 110
      [] c = "p" -> 112
      [] c = "t" -> 116
      [] c = "z" -> 122
      [] OTHER -> 63

\* s < t in byte order, as sort.Strings compares keys.
RECURSIVE StrLess(_, _)
StrLess(s, t) ==
    IF t = <<>> THEN FALSE
    ELSE IF s = <<>> THEN TRUE
    ELSE IF CharCode(Head(s)) # CharCode(Head(t))
         THEN CharCode(Head(s)) < CharCode(Head(t))
    ELSE StrLess(Tail(s), Tail(t))

\* strconv.Itoa
RECURSIVE ItoaNat(_)
ItoaNat(n) ==
    IF n < 10 THEN <<Digits[n + 1]>>
    ELSE ItoaNat(n \div 10) \o <<Digits[(n % 10) + 1]>>

Itoa(n) == IF n < 0 THEN <<"-">> \o ItoaNat(-n) ELSE ItoaNat(n)

RECURSIVE DigitsVal(_, _)
DigitsVal(s, acc) ==
    IF s = <<>> THEN acc ELSE DigitsVal(Tail(s), acc * 10 + DigitVal(Head(s)))

AllDigits(s) == s # <<>> /\ \A k \in 1..Len(s) : IsDigit(s[k])

\* An Atoi that reads text without digits as 0 and reports no error.
AtoiLenient(s) ==
    LET signed == s # <<>> /\ Head(s) \in {"-", "+"}
        body == IF signed THEN Tail(s) ELSE s
    IN  IF AllDigits(body)
        THEN [ok |-> TRUE,
              val |-> IF signed /\ Head(s) = "-"
                      THEN -DigitsVal(body, 0) ELSE DigitsVal(body, 0)]
        ELSE [ok |-> TRUE, val |-> 0]

\* strconv.Atoi: an optional sign, then one or more decimal digits.
Atoi(s) ==
    LET signed == s # <<>> /\ Head(s) \in {"-", "+"}
        body == IF signed THEN Tail(s) ELSE s
    IN  IF AllDigits(body)
        THEN [ok |-> TRUE,
              val |-> IF signed /\ Head(s) = "-"
                      THEN -DigitsVal(body, 0) ELSE DigitsVal(body, 0)]
        ELSE [ok |-> FALSE, val |-> 0]

\* strings.Split(path, "/")
RECURSIVE SplitSlash(_, _, _)
SplitSlash(s, cur, acc) ==
    IF s = <<>> THEN Append(acc, cur)
    ELSE IF Head(s) = "/" THEN SplitSlash(Tail(s), <<>>, Append(acc, cur))
    ELSE SplitSlash(Tail(s), Append(cur, Head(s)), acc)

Split(path) == SplitSlash(path, <<>>, <<>>)

\* ------------------------------------------------------------------------
\* NBT trees, as the nbt library hands them to the program:
\* string, map[string]interface{}, []interface{}, and numeric values.
\* ------------------------------------------------------------------------
Str(v) == [t |-> "str", v |-> v]
Num(n) == [t |-> "num", v |-> n]
List(s) == [t |-> "list", v |-> s]
Comp(f) == [t |-> "comp", v |-> f]
NoTree == [t |-> "none", v |-> 0]

\* Byte length of a string value.  BIG fills one sector; HUGE stands for
\* text that no longer fits in 255 sectors.
StrBytes(v) ==
    CASE v = "BIG" -> SectorSize
      [] v = "HUGE" -> MaxSectorCount * SectorSize
      [] v = "" -> 0
      [] OTHER -> 1

\* join combines two segments of an NBT path.
join(a, b) ==
    IF Len(b) = 0 THEN a
    ELSE IF b[1] = "[" THEN a \o b
    ELSE a \o <<"/">> \o b

\* The keys of a compound in descending order.
RECURSIVE SortKeysDescending(_)
SortKeysDescending(ks) ==
    IF ks = {} THEN <<>>
    ELSE LET k == CHOOSE x \in ks : \A y \in ks \ {x} : StrLess(y, x)
         IN  <<k>> \o SortKeysDescending(ks \ {k})

\* The keys of a compound in ascending order (sort.Strings).
RECURSIVE SortKeys(_)
SortKeys(ks) ==
    IF ks = {} THEN <<>>
    ELSE LET k == CHOOSE x \in ks : \A y \in ks \ {x} : StrLess(x, y)
         IN  <<k>> \o SortKeys(ks \ {k})

\* findStrings: the sequence of <<path, value>> callbacks, in call order.
RECURSIVE findStrings(_)
RECURSIVE findInKeys(_, _)
RECURSIVE findInList(_, _)
findStrings(x) ==
    CASE x.t = "str" -> << <<(<<>>), x.v>> >>
      [] x.t = "comp" -> findInKeys(x.v, SortKeys(DOMAIN x.v))
      [] x.t = "list" -> findInList(x.v, 1)
      [] OTHER -> <<>>

findInKeys(m, keys) ==
    IF keys = <<>> THEN <<>>
    ELSE LET k == Head(keys)
             sub == findStrings(m[k])
         IN  [n \in 1..Len(sub) |-> <<join(k, sub[n][1]), sub[n][2]>>]
             \o findInKeys(m, Tail(keys))

findInList(l, i) ==
    IF i > Len(l) THEN <<>>
    ELSE LET sub == findStrings(l[i])
             seg == <<"[">> \o Itoa(i - 1) \o <<"]">>
         IN  [n \in 1..Len(sub) |-> <<join(seg, sub[n][1]), sub[n][2]>>]
             \o findInList(l, i + 1)

\* dirRE = ^([^/\[]+)(?:\[(\d+)\])?$ applied to one path component.
\* ok: the component matches; name, index: groups 1 and 2 ("" = <<>>).
FirstBracket(part) ==
    IF \E k \in 1..Len(part) : part[k] = "["
    THEN CHOOSE k \in 1..Len(part) :
            part[k] = "[" /\ \A j \in 1..(k - 1) : part[j] # "["
    ELSE 0

dirRE(part) ==
    LET b == FirstBracket(part)
        n == Len(part)
    IN  IF b = 0
        THEN [ok |-> n > 0 /\ \A k \in 1..n : part[k] # "/",
              name |-> part, index |-> <<>>]
        ELSE [ok |-> /\ b > 1
                     /\ \A k \in 1..(b - 1) : part[k] # "/"
                     /\ n >= b + 2
                     /\ part[n] = "]"
                     /\ AllDigits(SubSeq(part, b + 1, n - 1)),
              name |-> SubSeq(part, 1, b - 1),
              index |-> SubSeq(part, b + 1, n - 1)]

\* The node at a location (a sequence of compound keys and list positions).
RECURSIVE NodeAt(_, _)
NodeAt(tree, loc) ==
    IF loc = <<>> THEN tree ELSE NodeAt(tree.v[Head(loc)], Tail(loc))

\* A set closure that replaces the whole parent by the one new element.
RECURSIVE SetAtDropsSiblings(_, _, _)
SetAtDropsSiblings(tree, loc, new) ==
    IF loc = <<>> THEN new
    ELSE IF Len(loc) = 1
         THEN [tree EXCEPT !.v = IF tree.t = "list" THEN <<new>>
                                 ELSE (Head(loc) :> new)]
    ELSE [tree EXCEPT !.v = [tree.v EXCEPT ![Head(loc)] =
                                SetAtDropsSiblings(tree.v[Head(loc)], Tail(loc), new)]]

\* The tree with the node at a location replaced: what the set closure of
\* patchString does through the shared map or slice.
RECURSIVE SetAt(_, _, _)
SetAt(tree, loc, new) ==
    IF loc = <<>> THEN new
    ELSE [tree EXCEPT !.v = [tree.v EXCEPT ![Head(loc)] =
                                SetAt(tree.v[Head(loc)], Tail(loc), new)]]

\* The loop of patchString over the path components: the location of the
\* node the path ends at, or an error.
RECURSIVE walkParts(_, _, _)
walkParts(root, parts, loc) ==
    IF parts = <<>> THEN [err |-> FALSE, loc |-> loc]
    ELSE LET component == dirRE(Head(parts))
             node == NodeAt(root, loc)
         IN  IF ~component.ok THEN [err |-> TRUE, loc |-> loc]
             ELSE IF node.t # "comp" THEN [err |-> TRUE, loc |-> loc]
             ELSE IF component.name \notin DOMAIN node.v
                  THEN [err |-> TRUE, loc |-> loc]
             ELSE LET elem == node.v[component.name]
                      loc1 == Append(loc, component.name)
                  IN  IF component.index = <<>>
                      THEN walkParts(root, Tail(parts), loc1)
                      ELSE LET index == Atoi(component.index)
                           IN  IF ~index.ok THEN [err |-> TRUE, loc |-> loc]
                               ELSE IF elem.t # "list"
                                    THEN [err |-> TRUE, loc |-> loc]
                               ELSE IF index.val < 0 \/ index.val >= Len(elem.v)
                                    THEN [err |-> TRUE, loc |-> loc]
                               ELSE walkParts(root, Tail(parts),
                                              Append(loc1, index.val + 1))

\* A patchString that marks the chunk dirty on every successful call.
patchStringAlwaysDirty(c, path, value) ==
    LET w == walkParts(c.nbt, Split(path), <<>>)
    IN  IF w.err THEN [err |-> TRUE, chunk |-> c]
        ELSE IF NodeAt(c.nbt, w.loc).t # "str" THEN [err |-> TRUE, chunk |-> c]
        ELSE [err |-> FALSE,
              chunk |-> [c EXCEPT !.updates = @ + 1,
                                  !.nbt = SetAt(c.nbt, w.loc, Str(value))]]

\* A patchString that counts an update before it finds the path wrong.
patchStringCountsFailures(c, path, value) ==
    LET w == walkParts(c.nbt, Split(path), <<>>)
        counted == [c EXCEPT !.updates = @ + 1]
    IN  IF w.err THEN [err |-> TRUE, chunk |-> counted]
        ELSE IF NodeAt(c.nbt, w.loc).t # "str" THEN [err |-> TRUE, chunk |-> counted]
        ELSE IF NodeAt(c.nbt, w.loc).v # value
             THEN [err |-> FALSE,
                   chunk |-> [counted EXCEPT !.nbt = SetAt(c.nbt, w.loc, Str(value))]]
             ELSE [err |-> FALSE, chunk |-> c]

\* patchString on a loaded chunk c = [dim, x, z, nbt, updates]:
\* err, and the chunk afterwards.
patchString(c, path, value) ==
    LET w == walkParts(c.nbt, Split(path), <<>>)
    IN  IF w.err THEN [err |-> TRUE, chunk |-> c]
        ELSE LET node == NodeAt(c.nbt, w.loc)
             IN  IF node.t # "str" THEN [err |-> TRUE, chunk |-> c]
                 ELSE IF node.v # value
                      THEN [err |-> FALSE,
                            chunk |-> [c EXCEPT !.updates = @ + 1,
                                                !.nbt = SetAt(c.nbt, w.loc, Str(value))]]
                      ELSE [err |-> FALSE, chunk |-> c]

\* ------------------------------------------------------------------------
\* The nbt encoder and the compressors (external libraries): only the size
\* of the encoded body matters to the program.
\* ------------------------------------------------------------------------
RECURSIVE PayloadLen(_)
RECURSIVE SumLens(_, _)
RECURSIVE SumEntries(_, _)
PayloadLen(x) ==
    CASE x.t = "str" -> 2 + StrBytes(x.v)
      [] x.t = "num" -> 4
      [] x.t = "list" -> 5 + SumLens(x.v, 1)
      [] x.t = "comp" -> SumEntries(x.v, DOMAIN x.v) + 1
      [] OTHER -> 0

SumLens(l, i) == IF i > Len(l) THEN 0 ELSE PayloadLen(l[i]) + SumLens(l, i + 1)

SumEntries(m, ks) ==
    IF ks = {} THEN 0
    ELSE LET k == CHOOSE x \in ks : TRUE
         IN  3 + Len(k) + PayloadLen(m[k]) + SumEntries(m, ks \ {k})

\* Bytes of the root tag: type, empty name, compound payload.
EncLen(tree) == 3 + PayloadLen(tree)

\* wrapWriter / wrapReader accept 1 (gzip), 2 (zlib), 3 (identity).
ValidCompression(c) == c \in {1, 2, 3}

\* Framing bytes a compressor adds around the stream.
Framing(c) == CASE c = 1 -> 18 [] c = 2 -> 6 [] OTHER -> 0

BodyLen(tree, c) == EncLen(tree) + Framing(c)

\* ------------------------------------------------------------------------
\* The region file: d = [locs, sec, fsize].
\*   locs  : table index -> uint32 location entry (sector 0)
\*   sec   : sec[s + 1] is the content of sector s
\*   fsize : length of the file in bytes
\* A sector written by saveChunk is described by what was written into it:
\* the length field, byte 4 (the compression discriminant), and which part
\* of which encoded body it carries.
\* ------------------------------------------------------------------------
Sector(kind, len, comp, encComp, enc, part) ==
    [kind |-> kind, len |-> len, comp |-> comp, encComp |-> encComp,
     enc |-> enc, part |-> part]

ZeroSector == Sector("zero", 0, 0, 0, NoTree, 0)
TableSector == Sector("table", 0, 0, 0, NoTree, 0)
TimeSector == Sector("time", 0, 0, 0, NoTree, 0)
JunkSector == Sector("junk", 0, 0, 0, NoTree, 0)

\* Sectors needed for a chunk whose length field is len.
CeilSectors(len) ==
    ((len + 4) \div SectorSize) + (IF (len + 4) % SectorSize # 0 THEN 1 ELSE 0)

\* The sectors of a chunk image: header with byte 4 = comp, body encoded
\* with encComp, zero padding.
ChunkImage(tree, comp, encComp) ==
    LET len == BodyLen(tree, encComp) + 1
    IN  [k \in 1..CeilSectors(len) |->
            IF k = 1 THEN Sector("head", len, comp, encComp, tree, 0)
            ELSE Sector("cont", 0, 0, encComp, tree, k - 1)]

\* A uint32 table entry, as its high 24 bits (start) and low 8 bits (count).
MkLoc(start, count) == [start |-> start, count |-> count]
EmptyLoc == MkLoc(0, 0)
\* (loc & 0xffffff00) >> 8
LocStart(loc) == loc.start
\* loc & 0xff
LocCount(loc) == loc.count

\* int64(4096 * (loc & 0xffffff00) >> 8): the product 4096 * (start << 8)
\* is a uint32, so start counts modulo 2^32 / 2^20 = 4096 sectors.
locOffset(loc) == (LocStart(loc) % WrapSectors) * SectorSize

\* int64(4096 * (loc & 0xff))
locSize(loc) == SectorSize * LocCount(loc)

LocAt(d, idx) == IF idx \in DOMAIN d.locs THEN d.locs[idx] ELSE EmptyLoc

\* Bytes of sector s present in the file.
SectorBytes(d, s) == Max(0, Min(SectorSize, d.fsize - s * SectorSize))

\* Byte 4 of the sector at a sector-aligned offset, as binary.Read gets it.
\* -1: a byte that is no compression discriminant.
ByteFour(d, s) ==
    LET x == d.sec[s + 1]
    IN  CASE x.kind = "head" -> x.comp
          [] x.kind = "zero" -> 0
          [] OTHER -> -1

\* readChunk on io.LimitedReader{f, size} positioned at offset.
readChunk(d, offset, size) ==
    LET s == offset \div SectorSize
        avail == Min(size, d.fsize - offset)
        fail == [err |-> TRUE, nbt |-> NoTree]
    IN  IF avail < 5 THEN fail
        ELSE LET hd == d.sec[s + 1]
             IN  IF hd.kind # "head" THEN fail
                 ELSE IF hd.len - 1 > avail - 5 THEN fail
                 ELSE IF ~ValidCompression(hd.comp) THEN fail
                 ELSE IF hd.comp # hd.encComp THEN fail
                 ELSE IF \E k \in 1..(CeilSectors(hd.len) - 1) :
                            d.sec[s + 1 + k] #
                              Sector("cont", 0, 0, hd.encComp, hd.enc, k)
                      THEN fail
                 ELSE [err |-> FALSE, nbt |-> hd.enc]

\* chunkPos returns the region x-z coordinates and the chunk offsets within
\* the region.  Go's / and % truncate toward zero.
GoDiv(a, b) == IF a >= 0 THEN a \div b ELSE -((-a) \div b)
GoMod(a, b) == a - b * GoDiv(a, b)

\* A chunkPos with Go's truncated quotient and remainder left as they are.
chunkPosTruncated(x, z) ==
    [rx |-> GoDiv(x, RegionWidth), rz |-> GoDiv(z, RegionWidth),
     dx |-> GoMod(x, RegionWidth), dz |-> GoMod(z, RegionWidth)]

chunkPos(x, z) ==
    LET rx0 == GoDiv(x, RegionWidth)
        rz0 == GoDiv(z, RegionWidth)
        dx0 == GoMod(x, RegionWidth)
        dz0 == GoMod(z, RegionWidth)
    IN  [rx |-> IF dx0 < 0 THEN rx0 - 1 ELSE rx0,
         rz |-> IF dz0 < 0 THEN rz0 - 1 ELSE rz0,
         dx |-> IF dx0 < 0 THEN dx0 + RegionWidth ELSE dx0,
         dz |-> IF dz0 < 0 THEN dz0 + RegionWidth ELSE dz0]

\* The world holds one region file: dimension 0, region (0, 0).
RegionExists(dim, rx, rz) == dim = 0 /\ rx = 0 /\ rz = 0

SlotIndex(x, z) == chunkPos(x, z).dz * RegionWidth + chunkPos(x, z).dx

\* a | b on unsigned integers.
RECURSIVE BitOr(_, _)
BitOr(a, b) ==
    IF a = 0 THEN b
    ELSE IF b = 0 THEN a
    ELSE (IF a % 2 = 1 \/ b % 2 = 1 THEN 1 ELSE 0) + 2 * BitOr(a \div 2, b \div 2)

\* uint32(x<<8) | uint32(n), as a table entry.
packLoc(x, n) == MkLoc(BitOr(x % StartLimit, (n \div 256) % StartLimit), n % 256)

\* ------------------------------------------------------------------------
\* Patch: the loaded chunk and saveChunk / loadChunk
\* ------------------------------------------------------------------------
NoChunk == [nil |-> TRUE, dim |-> 0, x |-> 0, z |-> 0, nbt |-> NoTree, updates |-> 0]

Chunk(dim, x, z, nbt) ==
    [nil |-> FALSE, dim |-> dim, x |-> x, z |-> z, nbt |-> nbt, updates |-> 0]

\* The error a command returns: what failed, and the line, dimension and
\* coordinates its message names (of a chunk, or of a region file).
MkError(kind, ln, dim, x, z) ==
    [kind |-> kind, line |-> ln, dim |-> dim, x |-> x, z |-> z]
NoError == MkError("none", 0, 0, 0, 0)

\* What one call of saveChunk did to the file (did = FALSE: nothing to save).
NoFlush ==
    [did |-> FALSE, ok |-> TRUE, idx |-> 0, oldLoc |-> EmptyLoc, newLoc |-> EmptyLoc,
     compression |-> 0, length |-> 0, newSectors |-> 0, offset |-> 0,
     endBefore |-> 0, endAfter |-> 0, nbt |-> NoTree]

\* A write that leaves the file ending where the body ends.
padEndNone(pos) == pos

\* Position after the zero padding that follows a write ending at pos.
padEnd(pos) ==
    IF pos % SectorSize # 0 THEN pos + (SectorSize - (pos % SectorSize)) ELSE pos

\* The writes at the end of saveChunk: the length at offset, one byte
\* skipped, the body, then padding to the end of the sector.
writeChunkData(d, offset, length, compression, nbt) ==
    LET s0 == offset \div SectorSize
        byte4 == IF offset + 5 <= d.fsize THEN ByteFour(d, s0) ELSE 0
        img == ChunkImage(nbt, byte4, compression)
        size == Max(d.fsize, padEnd(offset + 4 + length))
        nsec == (size + SectorSize - 1) \div SectorSize
    IN  [d EXCEPT !.fsize = size,
                  !.sec = [k \in 1..nsec |->
                             IF k - 1 >= s0 /\ k - 1 < s0 + Len(img) THEN img[k - s0]
                             ELSE IF k <= Len(d.sec) THEN d.sec[k]
                             ELSE ZeroSector]]

\* A sector count that is not rounded up.
newSectorCountFloor(length) == (length + 4) \div SectorSize

\* newSectors := (length + 4) / 4096, rounded up to the next whole sector.
newSectorCount(length) ==
    IF (length + 4) % SectorSize # 0
    THEN ((length + 4) \div SectorSize) + 1
    ELSE (length + 4) \div SectorSize

\* newSectors > 255
tooLarge(newSectors) == newSectors > MaxSectorCount

\* A chunk that needs more sectors grows where it is.
growOffsetInPlace(offset, sectors, end) == offset

\* The offset saveChunk writes at when the chunk needs more sectors.
growOffset(offset, sectors, end) ==
    IF offset + sectors * SectorSize < end THEN end ELSE offset

\* A saveChunk that never writes.
saveChunkNever(c, d) ==
    [err |-> FALSE, disk |-> d, resized |-> FALSE, flush |-> NoFlush]

\* saveChunk: err, the file afterwards, whether shouldCompact was set, and
\* the record of the write.
saveChunk(c, d) ==
    IF c.nil \/ c.updates = 0
    THEN [err |-> FALSE, disk |-> d, resized |-> FALSE, flush |-> NoFlush]
    ELSE
    LET failed(fl) == [err |-> TRUE, disk |-> d, resized |-> FALSE, flush |-> fl]
        \* Update the chunk location, then write the chunk data.
        write(fl, idx, sectors, compression, length, newSectors, offset) ==
            LET newLoc == packLoc(offset \div SectorSize, newSectors)
                d1 == IF newSectors # sectors
                      THEN [d EXCEPT !.locs = [d.locs EXCEPT ![idx] = newLoc]]
                      ELSE d
                done(d2) ==
                    [err |-> FALSE, disk |-> d2, resized |-> newSectors # sectors,
                     flush |-> [fl EXCEPT !.ok = TRUE,
                                          !.newLoc = LocAt(d2, idx),
                                          !.offset = offset,
                                          !.endAfter = d2.fsize]]
            IN  done(writeChunkData(d1, offset, length, compression, c.nbt))
        \* The size check, and where a chunk that needs more sectors goes.
        place(base, idx, offset, sectors, compression, length, newSectors) ==
            LET fl == [base EXCEPT !.compression = compression,
                                   !.length = length,
                                   !.newSectors = newSectors]
                grow == newSectors > sectors
                end == d.fsize
            IN  IF tooLarge(newSectors) THEN failed(fl)
                ELSE IF grow /\ end % SectorSize # 0 THEN failed(fl)
                ELSE write(fl, idx, sectors, compression, length, newSectors,
                           IF grow THEN growOffset(offset, sectors, end) ELSE offset)
        \* Encode the chunk with the compression read from its header.
        encode(base, idx, offset, sectors, compression) ==
            LET sized(length) ==
                    place(base, idx, offset, sectors, compression, length,
                          newSectorCount(length))
            IN  IF ~ValidCompression(compression) THEN failed(base)
                ELSE sized(BodyLen(c.nbt, compression) + 1)
        \* Read the location entry and the chunk header.
        header(idx, loc) ==
            LET base == [NoFlush EXCEPT !.did = TRUE, !.ok = FALSE, !.idx = idx,
                                        !.oldLoc = loc, !.newLoc = loc,
                                        !.nbt = c.nbt,
                                        !.endBefore = d.fsize, !.endAfter = d.fsize]
            IN  IF locOffset(loc) + 5 > d.fsize THEN failed(base)
                ELSE encode(base, idx, locOffset(loc), LocCount(loc),
                            ByteFour(d, locOffset(loc) \div SectorSize))
        entry(idx) == header(idx, LocAt(d, idx))
    IN  entry(SlotIndex(c.x, c.z))

\* dimensionPath accepts the dimensions 0, 1 and -1.
ValidDimension(dim) == dim \in {0, 1, -1}

\* loadChunk: err, the loaded chunk and the file afterwards.
loadChunk(c, d, dim, x, z) ==
    IF ~c.nil /\ c.dim = dim /\ c.x = x /\ c.z = z
    THEN [err |-> FALSE, chunk |-> c, disk |-> d, resized |-> FALSE,
          flush |-> NoFlush, error |-> NoError]
    ELSE
    LET pos == chunkPos(x, z)
        \* After saveChunk: find the region, read and decode the chunk.
        load(sv) ==
            LET out == [err |-> TRUE, chunk |-> c, disk |-> sv.disk,
                        resized |-> sv.resized, flush |-> sv.flush,
                        error |-> NoError]
                failed(e) == [out EXCEPT !.error = e]
                decoded(rd) ==
                    IF rd.err THEN failed(MkError("read", 0, dim, x, z))
                    ELSE [out EXCEPT !.err = FALSE, !.chunk = Chunk(dim, x, z, rd.nbt)]
                read(loc) == decoded(readChunk(sv.disk, locOffset(loc), locSize(loc)))
            IN  IF sv.err THEN failed(MkError("save", 0, 0, 0, 0))
                ELSE IF ~ValidDimension(dim)
                     THEN failed(MkError("dimension", 0, dim, 0, 0))
                ELSE IF ~RegionExists(dim, pos.rx, pos.rz)
                     THEN failed(MkError("open", 0, dim, pos.rx, pos.rz))
                ELSE read(LocAt(sv.disk, pos.dz * RegionWidth + pos.dx))
    IN  load(saveChunk(c, d))

\* ------------------------------------------------------------------------
\* Compact
\* ------------------------------------------------------------------------
\* The table indices in ascending order.
RECURSIVE SortInts(_)
SortInts(S) ==
    IF S = {} THEN <<>>
    ELSE LET m == CHOOSE x \in S : \A y \in S : x <= y
         IN  <<m>> \o SortInts(S \ {m})

\* A list of sector numbers left in table order.
sortSectorsNone(s) == s

\* sort.Slice on a list of sector numbers (duplicates kept).
RECURSIVE sortSectors(_)
sortSectors(s) ==
    IF s = <<>> THEN <<>>
    ELSE LET i == CHOOSE k \in 1..Len(s) : \A l \in 1..Len(s) : s[k] <= s[l]
         IN  <<s[i]>> \o sortSectors(SubSeq(s, 1, i - 1) \o SubSeq(s, i + 1, Len(s)))

\* The first loop of compactRegion: the occupied sectors, 0 and 1 first.
RECURSIVE occupiedSectors(_, _)
occupiedSectors(d, slots) ==
    IF slots = <<>> THEN <<>>
    ELSE LET loc == d.locs[Head(slots)]
             start == LocStart(loc)
         IN  (IF loc = EmptyLoc THEN <<>>
              ELSE [k \in 1..LocCount(loc) |-> start + k - 1])
             \o occupiedSectors(d, Tail(slots))

\* The starts that get a placeholder in reloc.
relocStarts(d) ==
    {LocStart(d.locs[i]) : i \in {j \in DOMAIN d.locs : d.locs[j] # EmptyLoc}}

\* A compactRegion without the sanity check.
hasOverlapUnchecked(sorted) == FALSE

\* Sanity check: a sector that appears more than once.
hasOverlap(sorted) == \E k \in 1..(Len(sorted) - 1) : sorted[k] = sorted[k + 1]

\* The copy loop: i is the new sector (0 based), sectors[i + 1] the old one.
RECURSIVE copyLoop(_, _, _, _)
copyLoop(d, sectors, i, reloc) ==
    IF i >= Len(sectors)
    THEN [err |-> FALSE, msg |-> "none", disk |-> d, reloc |-> reloc]
    ELSE LET j == sectors[i + 1]
             reloc1 == IF j \in DOMAIN reloc THEN [reloc EXCEPT ![j] = i] ELSE reloc
         IN  IF i > j
             THEN [err |-> TRUE, msg |-> "backward", disk |-> d, reloc |-> reloc1]
             ELSE IF i = j THEN copyLoop(d, sectors, i + 1, reloc1)
             ELSE IF SectorBytes(d, j) # SectorSize
                  THEN [err |-> TRUE, msg |-> "read", disk |-> d, reloc |-> reloc1]
             ELSE copyLoop([d EXCEPT !.sec[i + 1] = d.sec[j + 1]],
                           sectors, i + 1, reloc1)

\* A table rebuild that keeps every entry's old start.
relocateKeepsStart(loc, reloc) == loc

\* locs[i] = uint32(newStart<<8) | uint32(count)
relocate(loc, reloc) ==
    IF loc = EmptyLoc THEN EmptyLoc
    ELSE packLoc(reloc[LocStart(loc)], LocCount(loc))

\* The length compactRegion truncates the file to.
newSize(sectors) == (Len(sectors) - 1) * SectorSize

\* f.Truncate(size)
truncate(d, size) ==
    LET n == (size + SectorSize - 1) \div SectorSize
    IN  [d EXCEPT !.fsize = size,
                  !.sec = [k \in 1..n |->
                             IF k <= Len(d.sec) THEN d.sec[k] ELSE ZeroSector]]

\* compactRegion: err, which error, and the file afterwards.
compactRegion(d) ==
    LET sectors == sortSectors(<<0, 1>> \o occupiedSectors(d, SortInts(DOMAIN d.locs)))
        reloc0 == [s \in relocStarts(d) |-> -1]
        cp == copyLoop(d, sectors, 0, reloc0)
        table == [i \in DOMAIN d.locs |-> relocate(d.locs[i], cp.reloc)]
    IN  IF d.fsize < SectorSize THEN [err |-> TRUE, msg |-> "table", disk |-> d]
        ELSE IF hasOverlap(sectors) THEN [err |-> TRUE, msg |-> "overlap", disk |-> d]
        ELSE IF cp.err THEN [err |-> TRUE, msg |-> cp.msg, disk |-> cp.disk]
        ELSE [err |-> FALSE, msg |-> "none",
              disk |-> truncate([cp.disk EXCEPT !.locs = table], newSize(sectors))]

\* compactWorld, compactDimension on a world of two region files of
\* dimension 0, r.0.0.mca (d) and r.0.1.mca (o), in directory order.
compactWorld(d, o) ==
    LET second(a, b) ==
            [error |-> IF b.err THEN MkError(b.msg, 0, 0, 0, 1) ELSE NoError,
             disk |-> a.disk, other |-> b.disk]
        first(a) ==
            IF a.err
            THEN [error |-> MkError(a.msg, 0, 0, 0, 0), disk |-> a.disk, other |-> o]
            ELSE second(a, compactRegion(o))
    IN  first(compactRegion(d))

\* ------------------------------------------------------------------------
\* Extract
\* ------------------------------------------------------------------------
\* The rows readRegion writes for one chunk (filter "all").
chunkRows(dim, x, z, idx, nbt) ==
    LET found == findStrings(nbt)
    IN  [n \in 1..Len(found) |->
            <<Itoa(dim), Itoa(x * RegionWidth + (idx % RegionWidth)),
              Itoa(z * RegionWidth + (idx \div RegionWidth)),
              found[n][1], found[n][2]>>]

\* readRegion over the table in index order: the rows written, and err.
RECURSIVE readRegion(_, _, _, _, _)
readRegion(d, dim, x, z, slots) ==
    IF slots = <<>> THEN [err |-> FALSE, rows |-> <<>>]
    ELSE LET idx == Head(slots)
             loc == d.locs[idx]
             rd == readChunk(d, locOffset(loc), locSize(loc))
             rest == readRegion(d, dim, x, z, Tail(slots))
         IN  IF loc = EmptyLoc THEN rest
             ELSE IF rd.err THEN [err |-> TRUE, rows |-> <<>>]
             ELSE [err |-> rest.err,
                   rows |-> chunkRows(dim, x, z, idx, rd.nbt) \o rest.rows]

\* readWorld, readDimension on the world of the model, r.0.0.mca (d) and
\* r.0.1.mca (o): readDimension calls readRegion on each file in directory
\* order and drops the error it returns.
readWorld(d, o) ==
    [err |-> FALSE,
     rows |-> readRegion(d, 0, 0, 0, SortInts(DOMAIN d.locs)).rows
              \o readRegion(o, 0, 0, 1, SortInts(DOMAIN o.locs)).rows]

\* ------------------------------------------------------------------------
\* State
\* ------------------------------------------------------------------------
VARIABLES
    locs,           \* sector 0: table index -> location entry
    sec,            \* the sectors of the region file
    fsize,          \* the length of the region file in bytes
    pc,             \* "idle", or "patch" while Patch.run reads records
    chunk,          \* Patch.chunk
    shouldCompact,  \* Patch.shouldCompact
    line,           \* the line counter of Patch.run
    csv,            \* the records left in the strings file (replay of an extract)
    stream,         \* TRUE: the strings file is any input, chosen record by record
    rows,           \* the rows the last extract wrote
    lastOp,         \* the last command: "none", "patch", "compact", "extract"
    status,         \* its outcome: "ok", "err", or "run" while it runs
    flush,          \* what saveChunk did in the last step
    pre,            \* the file when the last command started
    want,           \* per slot, the string leaves a re-read should yield
    written,        \* table indices of the chunks written by the patch run
    runs,           \* commands started so far
    nread,          \* records read from arbitrary strings files so far
    other,          \* the second region file of the world, r.0.1.mca
    error,          \* the error the last command returned
    scripted,       \* TRUE: the strings file is one of Scripts
    edited,         \* table indices of the chunks with a leaf given a new value
    strings         \* the strings file the patch run was started with

vars == <<locs, sec, fsize, pc, chunk, shouldCompact, line, csv, stream, rows,
          lastOp, status, flush, pre, want, written, runs, nread, other, error,
          scripted, edited, strings>>

Disk == [locs |-> locs, sec |-> sec, fsize |-> fsize]

\* ------------------------------------------------------------------------
\* Region files the runs start from
\* ------------------------------------------------------------------------
KeyT == <<"t">>
KeyN == <<"n">>
KeyP == <<"p">>
KeyI == <<"i">>
KeyM == <<"m">>

\* A sign: one string and one number.
TreeSign(v) == Comp((KeyT :> Str(v)) @@ (KeyN :> Num(7)))
\* A book: a list of strings.
TreePages(v, w) == Comp(KeyP :> List(<<Str(v), Str(w)>>))
\* Items: a compound inside a list.
TreeItems(v) == Comp(KeyI :> List(<<Comp(KeyN :> Str(v))>>))
\* A list nested directly in a list, next to a compound inside a list.
TreeNested(v, w) ==
    Comp((KeyI :> List(<<Comp(KeyN :> Str(v))>>))
         @@ (KeyM :> List(<<List(<<Str(w)>>)>>)))

\* A chunk without strings.
TreeNumbers == Comp(KeyN :> Num(7))

\* Table indices of the chunks (0, 0), (1, 0) and (0, 1).
SlotA == SlotIndex(0, 0)
SlotB == SlotIndex(1, 0)
SlotC == SlotIndex(0, 1)
Slots == {SlotA, SlotB, SlotC}

\* A populated slot of a starting file: tree, compression, start, count.
Alloc(idx, tree, comp, start, count) ==
    [idx |-> idx, tree |-> tree, comp |-> comp, start |-> start, count |-> count]

\* The region file with the given allocations, n sectors and tail more
\* bytes; sectors outside every chunk image hold stale bytes.
MkDisk(allocs, n, tail) ==
    LET holds(a, s) ==
            /\ s >= a.start
            /\ s < a.start + Min(a.count, Len(ChunkImage(a.tree, a.comp, a.comp)))
        sectorAt(s) ==
            IF s = 0 THEN TableSector
            ELSE IF s = 1 THEN TimeSector
            ELSE IF \E a \in allocs : holds(a, s)
                 THEN LET a == CHOOSE b \in allocs : holds(b, s)
                      IN  ChunkImage(a.tree, a.comp, a.comp)[s - a.start + 1]
                 ELSE JunkSector
    IN  [locs |-> [i \in Slots |->
                     IF \E a \in allocs : a.idx = i
                     THEN LET a == CHOOSE b \in allocs : b.idx = i
                          IN  MkLoc(a.start, a.count)
                     ELSE EmptyLoc],
         sec |-> [k \in 1..(n + (IF tail > 0 THEN 1 ELSE 0)) |-> sectorAt(k - 1)],
         fsize |-> n * SectorSize + tail]

\* Packed file; the last chunk has a spare sector in its allocation.
DiskPacked ==
    MkDisk({Alloc(SlotA, TreeSign("a"), 2, 2, 1),
            Alloc(SlotB, TreePages("a", "BIG"), 1, 3, 2),
            Alloc(SlotC, TreeNested("a", "a"), 3, 5, 2)}, 7, 0)

\* The file of the compact scenario: orphaned sectors between the chunks.
DiskOrphans ==
    MkDisk({Alloc(SlotA, TreeSign("a"), 2, 2, 1),
            Alloc(SlotB, TreePages("a", "a"), 2, 5, 1),
            Alloc(SlotC, TreeItems("a"), 2, 10, 1)}, 11, 0)

\* Chunks stored in reverse order of their slots.
DiskReversed ==
    MkDisk({Alloc(SlotC, TreeItems("BIG"), 2, 2, 2),
            Alloc(SlotB, TreePages("a", "a"), 3, 4, 2),
            Alloc(SlotA, TreeSign("a"), 1, 6, 1)}, 7, 0)

\* A file with trailing bytes after the last whole sector, one empty slot.
DiskUnaligned ==
    MkDisk({Alloc(SlotA, TreeSign("a"), 2, 2, 1),
            Alloc(SlotB, TreePages("a", "a"), 2, 3, 1)}, 4, 100)

InitDisks == {DiskPacked, DiskOrphans, DiskReversed, DiskUnaligned}

\* Files no tool of the game writes: entries with sector count 0 (one
\* inside another chunk, one past the end of the file), chunks that share
\* a sector, and a chunk past the end of the file.
DiskZeroCount ==
    MkDisk({Alloc(SlotA, TreeSign("a"), 2, 3, 1),
            Alloc(SlotB, TreePages("a", "a"), 2, 3, 0),
            Alloc(SlotC, TreeItems("a"), 2, 9, 0)}, 5, 0)

DiskOverlap ==
    MkDisk({Alloc(SlotA, TreePages("a", "BIG"), 2, 2, 2),
            Alloc(SlotB, TreeSign("a"), 2, 3, 1)}, 4, 0)

DiskBeyondEnd ==
    MkDisk({Alloc(SlotA, TreeSign("a"), 2, 3, 1),
            Alloc(SlotB, TreePages("a", "a"), 2, 6, 1)}, 5, 0)

\* A chunk whose allocation starts in the timestamp sector.
DiskInHeader ==
    MkDisk({Alloc(SlotA, TreeSign("a"), 2, 1, 2),
            Alloc(SlotB, TreePages("a", "a"), 2, 3, 1)}, 4, 0)

\* A table entry whose start does not fit in 12 bits: the chunk lies past
\* the end of the file.
DiskWrapped ==
    MkDisk({Alloc(SlotA, TreeSign("a"), 2, 2, 1),
            Alloc(SlotB, TreePages("a", "a"), 2, WrapSectors + 2, 1)}, 4, 0)

AnyDisks ==
    InitDisks \cup {DiskZeroCount, DiskOverlap, DiskBeyondEnd, DiskInHeader, DiskWrapped}

\* The second region file of the world, r.0.1.mca: one chunk without
\* strings behind an orphaned sector.
DiskOther == MkDisk({Alloc(SlotA, TreeNumbers, 2, 3, 1)}, 4, 0)

\* ------------------------------------------------------------------------
\* The strings file
\* ------------------------------------------------------------------------
\* field returns the nth string of a record, or "" beyond its bounds.
field(rec, index) == IF Len(rec) <= index THEN <<>> ELSE rec[index + 1]

valueField(rec) == IF Len(rec) <= 4 THEN "" ELSE rec[5]

Dimension == <<"d", "i", "m", "e", "n", "s", "i", "o", "n">>
HeaderRow == <<Dimension, <<"x">>, <<"z">>, <<"p">>, "">>

PathT == <<"t">>
PathP0 == <<"p", "[", "0", "]">>
PathP1 == <<"p", "[", "1", "]">>
PathIN == <<"i", "[", "0", "]", "/", "n">>
PathM00 == <<"m", "[", "0", "]", "[", "0", "]">>
PathMissing == <<"z">>

Values == {"a", "x", "BIG", "HUGE"}

\* Records a strings file may hold: every chunk with the paths of its
\* leaves, and a path that names no leaf.
Targets ==
    {<<0, 0, PathT>>, <<0, 0, PathMissing>>, <<1, 0, PathP0>>, <<1, 0, PathP1>>,
     <<0, 1, PathIN>>, <<0, 1, PathM00>>}

Records == {<<Itoa(0), Itoa(t[1]), Itoa(t[2]), t[3], v>> : t \in Targets, v \in Values}

Rec(dim, x, z, path, v) == <<Itoa(dim), Itoa(x), Itoa(z), path, v>>

\* Paths patchString rejects on the sign of chunk (0, 0) and the book of
\* chunk (1, 0): a prefix that is no compound, an indexed value that is no
\* list, a leaf that is no string, an index past the end of the list.
PathTX == <<"t", "/", "x">>
PathT0 == <<"t", "[", "0", "]">>
PathN == <<"n">>
PathP5 == <<"p", "[", "5", "]">>

FailingRecords ==
    {Rec(0, 0, 0, q, "x") : q \in {PathM00, PathTX, PathMissing, PathT0, PathN}}
      \cup {Rec(0, 1, 0, PathP5, "x")}

\* Records run skips: a field that is no integer, no path, fields missing.
MalformedRecords ==
    {<< <<"x">>, Itoa(0), Itoa(0), PathT, "x">>,
     <<Itoa(0), <<>>, Itoa(0), PathT, "x">>,
     <<Itoa(0), Itoa(0), <<"1", "x">>, PathT, "x">>,
     <<Itoa(0), Itoa(0), Itoa(0), <<>>, "x">>,
     <<Itoa(0), Itoa(0)>>}

\* Records of chunks the world does not hold.
AbsentRecords ==
    {Rec(0, -1, -1, PathT, "x"), Rec(0, 40, -33, PathT, "x"),
     Rec(1, 0, 0, PathT, "x"), Rec(7, 0, 0, PathT, "x")}

\* Three records that name three leaves of two chunks.
DistinctLeaves ==
    {Rec(0, 1, 0, PathP0, "BIG"), Rec(0, 0, 0, PathT, "x"), Rec(0, 1, 0, PathP1, "x")}

Opening == {Rec(0, 0, 0, PathT, "x"), Rec(0, 1, 0, PathP0, "x")}

\* The strings files of the patch scenarios: every order of the three
\* records, a failing record first or second, a malformed record first or
\* between two records, a record of an absent chunk.
Scripts ==
    {s \in [1..3 -> DistinctLeaves] : \A i, j \in 1..3 : i # j => s[i] # s[j]}
      \cup {<<f>> : f \in FailingRecords \cup AbsentRecords}
      \cup {<<r, f>> : r \in Opening, f \in FailingRecords}
      \cup {<<b, Rec(0, 0, 0, PathT, "x")>> : b \in MalformedRecords}
      \cup {<<Rec(0, 0, 0, PathT, "x"), b, Rec(0, 1, 0, PathP0, "x")>> :
               b \in MalformedRecords}

\* The rows extract writes for a chunk with one sign text, for regions on
\* both sides of the origin and table indices at the corners of the table.
ExtractedRows ==
    {chunkRows(0, rx, rz, i, TreeSign("a")) :
        rx \in -2..1, rz \in -2..1, i \in {0, 1, RegionWidth - 1, RegionWidth,
                                           RegionWidth * RegionWidth - 1}}

\* The leaves with the leaf at path set to value.
SetLeaf(leaves, path, value) ==
    [n \in 1..Len(leaves) |->
        IF leaves[n][1] = path THEN <<path, value>> ELSE leaves[n]]

\* What a re-read of each slot yields.
Leaves(d) ==
    [i \in DOMAIN d.locs |->
        LET rd == readChunk(d, locOffset(d.locs[i]), locSize(d.locs[i]))
        IN  IF d.locs[i] = EmptyLoc \/ rd.err THEN [ok |-> FALSE, leaves |-> <<>>]
            ELSE [ok |-> TRUE, leaves |-> findStrings(rd.nbt)]]

\* ------------------------------------------------------------------------
\* Initial state and commands
\* ------------------------------------------------------------------------
InitFrom(disks) ==
    /\ \E d \in disks : locs = d.locs /\ sec = d.sec /\ fsize = d.fsize
    /\ pc = "idle"
    /\ chunk = NoChunk
    /\ shouldCompact = FALSE
    /\ line = 0
    /\ csv = <<>>
    /\ stream = FALSE
    /\ rows = <<>>
    /\ lastOp = "none"
    /\ status = "ok"
    /\ flush = NoFlush
    /\ pre = Disk
    /\ want = Leaves(Disk)
    /\ written = {}
    /\ runs = 0
    /\ nread = 0
    /\ other = DiskOther
    /\ error = NoError
    /\ scripted = FALSE
    /\ edited = {}
    /\ strings = <<>>

\* A world whose region file is well formed.
Init == InitFrom(InitDisks)

\* A world with any region file.
InitAny == InitFrom(AnyDisks)

SetDisk(d) == locs' = d.locs /\ sec' = d.sec /\ fsize' = d.fsize

\* Patch.Execute up to the first record: a fresh Patch, a strings file.
BeginPatch(input, anyInput) ==
    /\ pc = "idle"
    /\ runs < MaxRuns
    /\ pc' = "patch"
    /\ chunk' = NoChunk
    /\ shouldCompact' = FALSE
    /\ line' = 0
    /\ csv' = input
    /\ strings' = input
    /\ stream' = anyInput
    /\ lastOp' = "patch"
    /\ status' = "run"
    /\ flush' = NoFlush
    /\ pre' = Disk
    /\ want' = Leaves(Disk)
    /\ written' = {}
    /\ runs' = runs + 1
    /\ error' = NoError
    /\ edited' = {}
    /\ UNCHANGED <<locs, sec, fsize, rows, nread, other>>

\* patch -strings <any csv file>
StartPatch == BeginPatch(<<>>, TRUE) /\ scripted' = FALSE

\* patch -strings <one of the scenario files>
StartScript == \E s \in Scripts : BeginPatch(s, FALSE) /\ scripted' = TRUE

\* patch -strings <the file the last extract wrote>, with or without header
StartReplay ==
    /\ lastOp = "extract"
    /\ \E header \in BOOLEAN :
          BeginPatch((IF header THEN <<HeaderRow>> ELSE <<>>) \o rows, FALSE)
    /\ scripted' = FALSE

\* A run that goes on to the next record after a patchString error.
FinishKeepsReading(e, sv) ==
    /\ pc' = IF e.kind = "patch" THEN "patch" ELSE "idle"
    /\ status' = IF e # NoError THEN "err" ELSE "ok"
    /\ error' = e
    /\ SetDisk(sv.disk)
    /\ shouldCompact' = (shouldCompact \/ sv.resized)
    /\ flush' = sv.flush
    /\ written' = IF sv.flush.did /\ sv.flush.ok
                  THEN written \cup {sv.flush.idx} ELSE written

\* The run ends: Execute returns.
Finish(e, sv) ==
    /\ pc' = "idle"
    /\ status' = IF e # NoError THEN "err" ELSE "ok"
    /\ error' = e
    /\ SetDisk(sv.disk)
    /\ shouldCompact' = (shouldCompact \/ sv.resized)
    /\ flush' = sv.flush
    /\ written' = IF sv.flush.did /\ sv.flush.ok
                  THEN written \cup {sv.flush.idx} ELSE written

\* One iteration of the loop of Patch.run on the record rec.
PatchRecord(rec) ==
    LET dim == Atoi(field(rec, 0))
        x == Atoi(field(rec, 1))
        z == Atoi(field(rec, 2))
        path == field(rec, 3)
        ok == dim.ok /\ x.ok /\ z.ok /\ path # <<>>
        \* After loadChunk and patchString.
        patched(lc, ps) ==
            IF lc.err
            THEN Finish(lc.error, lc) /\ UNCHANGED <<chunk, want, edited>>
            ELSE IF ps.err
            THEN Finish(MkError("patch", line + 1, dim.val, x.val, z.val), lc)
                 /\ chunk' = ps.chunk /\ UNCHANGED <<want, edited>>
            ELSE /\ SetDisk(lc.disk)
                 /\ shouldCompact' = (shouldCompact \/ lc.resized)
                 /\ flush' = lc.flush
                 /\ written' = IF lc.flush.did /\ lc.flush.ok
                               THEN written \cup {lc.flush.idx} ELSE written
                 /\ chunk' = ps.chunk
                 /\ want' = [want EXCEPT ![SlotIndex(lc.chunk.x, lc.chunk.z)].leaves =
                                SetLeaf(@, path, valueField(rec))]
                 /\ edited' =
                      IF SetLeaf(want[SlotIndex(lc.chunk.x, lc.chunk.z)].leaves,
                                 path, valueField(rec))
                           # want[SlotIndex(lc.chunk.x, lc.chunk.z)].leaves
                      THEN edited \cup {SlotIndex(lc.chunk.x, lc.chunk.z)}
                      ELSE edited
                 /\ UNCHANGED <<pc, status, error>>
        loaded(lc) == patched(lc, patchString(lc.chunk, path, valueField(rec)))
    IN  /\ line' = line + 1
        /\ UNCHANGED <<rows, lastOp, pre, runs, stream, other, scripted, strings>>
        /\ IF (line + 1 = 1 /\ field(rec, 0) = Dimension) \/ ~ok
           THEN UNCHANGED <<locs, sec, fsize, pc, chunk, shouldCompact, status,
                            want, written, error, edited>>
                /\ flush' = NoFlush
           ELSE loaded(loadChunk(chunk, Disk, dim.val, x.val, z.val))

\* csv.Read returns a record of an arbitrary strings file.
ReadAny ==
    /\ pc = "patch"
    /\ stream
    /\ nread < MaxRecs
    /\ nread' = nread + 1
    /\ \E rec \in Records : PatchRecord(rec)
    /\ UNCHANGED csv

\* csv.Read returns the next record of the replayed extract.
ReadRow ==
    /\ pc = "patch"
    /\ ~stream
    /\ csv # <<>>
    /\ PatchRecord(Head(csv))
    /\ csv' = Tail(csv)
    /\ UNCHANGED nread

\* csv.Read returns io.EOF: the loaded chunk is saved and the run ends.
PatchEnd ==
    /\ pc = "patch"
    /\ stream \/ csv = <<>>
    /\ LET done(sv) ==
               Finish(IF sv.err THEN MkError("save", 0, 0, 0, 0) ELSE NoError, sv)
       IN  done(saveChunk(chunk, Disk))
    /\ UNCHANGED <<chunk, line, csv, stream, rows, lastOp, pre, want, runs, nread,
                   other, scripted, edited, strings>>

\* compact <world>
Compact ==
    LET done(r) ==
            /\ status' = IF r.error # NoError THEN "err" ELSE "ok"
            /\ error' = r.error
            /\ SetDisk(r.disk)
            /\ other' = r.other
    IN  /\ pc = "idle"
        /\ runs < MaxRuns
        /\ runs' = runs + 1
        /\ lastOp' = "compact"
        /\ pre' = Disk
        /\ done(compactWorld(Disk, other))
        /\ flush' = NoFlush
        /\ UNCHANGED <<pc, chunk, shouldCompact, line, csv, stream, rows, want,
                       written, nread, scripted, edited, strings>>

\* extract <world> (filter all, no header)
Extract ==
    LET done(r) ==
            /\ status' = IF r.err THEN "err" ELSE "ok"
            /\ error' = IF r.err THEN MkError("read", 0, 0, 0, 0) ELSE NoError
            /\ rows' = r.rows
    IN  /\ pc = "idle"
        /\ runs < MaxRuns
        /\ runs' = runs + 1
        /\ lastOp' = "extract"
        /\ pre' = Disk
        /\ done(readWorld(Disk, other))
        /\ flush' = NoFlush
        /\ UNCHANGED <<locs, sec, fsize, pc, chunk, shouldCompact, line, csv,
                       stream, want, written, nread, other, scripted, edited,
                       strings>>

Next ==
    \/ StartPatch
    \/ StartReplay
    \/ StartScript
    \/ ReadAny
    \/ ReadRow
    \/ PatchEnd
    \/ Compact
    \/ Extract

Spec == Init /\ [][Next]_vars

SpecAny == InitAny /\ [][Next]_vars

\* patch -strings <rows an extract wrote for any region of the world>
StartExtracted == \E s \in ExtractedRows : BeginPatch(s, FALSE) /\ scripted' = TRUE

\* Patch runs over extracted rows of chunks in any region.
NextPos ==
    \/ StartExtracted
    \/ ReadRow
    \/ PatchEnd

SpecPos == Init /\ [][NextPos]_vars

\* ------------------------------------------------------------------------
\* Properties
\* ------------------------------------------------------------------------
PatchDone == pc = "idle" /\ lastOp = "patch"
PatchOk == PatchDone /\ status = "ok"
CompactOk == pc = "idle" /\ lastOp = "compact" /\ status = "ok"
Flushed == flush.did /\ flush.ok

Populated(d) == {i \in DOMAIN d.locs : d.locs[i] # EmptyLoc}

\* The sectors [start, start + count) of a table entry.
Range(loc) == {s \in LocStart(loc)..(LocStart(loc) + LocCount(loc) - 1) : TRUE}

\* C1: after a patch run that ends successfully, a re-read of every chunk
\* yields the last value written to each named leaf and the value from
\* before the run for every other leaf, also when a chunk was resized in
\* place or relocated to the end of the file.
C1_PatchedLeavesReadBack ==
    PatchOk => \A i \in DOMAIN locs : want[i].ok => Leaves(Disk)[i] = want[i]

\* C2: patch with exactly the rows extract emitted ends without error,
\* writes no chunk, leaves the file and shouldCompact untouched, and a
\* second extract emits the same rows in the same order.
C2_ReplayIsNoOp ==
    (PatchDone /\ ~stream /\ ~scripted) =>
        /\ status = "ok"
        /\ written = {}
        /\ Disk = pre
        /\ ~shouldCompact
        /\ readWorld(Disk, other).rows = rows

\* C3: the sector ranges of any two populated slots are disjoint after any
\* sequence of successful patch flushes and compact runs.
C3_AllocationsDisjoint ==
    \A i, j \in Populated(Disk) :
        i # j => Range(locs[i]) \cap Range(locs[j]) = {}

\* C4: after a successful compact every populated slot keeps its sector
\* count and the count * 4096 bytes readable at its new start are the bytes
\* stored at its old start before; empty slots stay empty.
C4_CompactKeepsChunks ==
    CompactOk =>
        \A i \in DOMAIN locs :
            IF pre.locs[i] = EmptyLoc THEN locs[i] = EmptyLoc
            ELSE /\ LocCount(locs[i]) = LocCount(pre.locs[i])
                 /\ \A k \in 0..(LocCount(locs[i]) - 1) :
                       /\ SectorBytes(Disk, LocStart(locs[i]) + k) = SectorSize
                       /\ sec[LocStart(locs[i]) + k + 1]
                            = pre.sec[LocStart(pre.locs[i]) + k + 1]

\* The distinct occupied sectors of a file, sectors 0 and 1 included.
Occupied(d) == {0, 1} \cup UNION {Range(d.locs[i]) : i \in Populated(d)}

\* C5: after a successful compact the file is N * 4096 bytes long, N the
\* number of distinct occupied sectors counting sectors 0 and 1.
C5_CompactLength ==
    CompactOk => fsize = Cardinality(Occupied(pre)) * SectorSize

\* C6: compact is idempotent: on the result of a successful compact a
\* second compact succeeds and changes neither the table, nor a sector, nor
\* the length of the file.
C6_CompactIdempotent ==
    CompactOk => LET again(r) == ~r.err /\ r.disk = Disk IN again(compactRegion(Disk))

C6_Witness == CompactOk /\ locs # pre.locs /\ sec # pre.sec

\* C7: after a successful chunk write the slot's start holds the length,
\* then the compression discriminant the chunk had before the write, then
\* the body: reading the slot again decodes the written tree.
C7_WriteKeepsCompression ==
    Flushed =>
        LET loc == locs[flush.idx]
            hd == sec[LocStart(loc) + 1]
        IN  /\ hd.kind = "head"
            /\ hd.len = flush.length
            /\ hd.comp = flush.compression
            /\ readChunk(Disk, locOffset(loc), locSize(loc))
                 = [err |-> FALSE, nbt |-> flush.nbt]

\* C8: a chunk that needs no more sectors than it has is written at its
\* start and the file length does not change; one that needs more stays at
\* its start if its allocation reaches the end of the file and moves to
\* end / 4096 otherwise, its count becomes new_sectors and the file grows
\* by at least one sector.
C8_GrowthPolicy ==
    Flushed =>
        LET old == flush.oldLoc
            new == flush.newLoc
        IN  IF flush.newSectors <= LocCount(old)
            THEN /\ LocStart(new) = LocStart(old)
                 /\ flush.endAfter = flush.endBefore
            ELSE /\ LocStart(new) =
                      (IF (LocStart(old) + LocCount(old)) * SectorSize >= flush.endBefore
                       THEN LocStart(old) ELSE flush.endBefore \div SectorSize)
                 /\ LocCount(new) = flush.newSectors
                 /\ flush.endAfter >= flush.endBefore + SectorSize

\* C9: after a successful patch run every chunk the run wrote has a stored
\* count equal to ceil((length + 4) / 4096) for the length in its header,
\* between 1 and 255, with length + 4 <= count * 4096.
C9_SectorCount ==
    PatchOk =>
        \A i \in written :
            LET loc == locs[i]
            IN  /\ LocStart(loc) < Len(sec)
                /\ sec[LocStart(loc) + 1].kind = "head"
                /\ LocCount(loc) = CeilSectors(sec[LocStart(loc) + 1].len)
                /\ LocCount(loc) \in 1..255
                /\ sec[LocStart(loc) + 1].len + 4 <= LocCount(loc) * SectorSize

\* C10: a command that starts on a file whose length is a multiple of 4096
\* never leaves another length; a write that must grow the chunk while the
\* length is no multiple of 4096 fails and moves nothing.
C10_Alignment ==
    /\ pre.fsize % SectorSize = 0 => fsize % SectorSize = 0
    /\ (flush.did /\ flush.newSectors > LocCount(flush.oldLoc)
        /\ flush.endBefore % SectorSize # 0)
       => (~flush.ok /\ locs[flush.idx] = flush.oldLoc /\ fsize = flush.endBefore)

C10_Witness ==
    /\ flush.did /\ ~flush.ok
    /\ flush.newSectors > LocCount(flush.oldLoc)
    /\ flush.newSectors <= MaxSectorCount
    /\ flush.endBefore % SectorSize # 0

\* ------------------------------------------------------------------------
\* The record a ReadRow step reads, and what run makes of it.
\* ------------------------------------------------------------------------
Reading == pc = "patch" /\ ~stream /\ csv # <<>>
ThisRec == Head(csv)
IsHeader == line = 0 /\ field(ThisRec, 0) = Dimension
\* An optional sign and decimal digits.
IsInteger(s) ==
    /\ s # <<>>
    /\ IF s[1] \in {"-", "+"}
       THEN Len(s) > 1 /\ \A k \in 2..Len(s) : s[k] \in {Digits[d] : d \in 1..10}
       ELSE \A k \in 1..Len(s) : s[k] \in {Digits[d] : d \in 1..10}
WellFormed(rec) ==
    /\ IsInteger(field(rec, 0)) /\ IsInteger(field(rec, 1)) /\ IsInteger(field(rec, 2))
    /\ field(rec, 3) # <<>>
\* The chunk loadChunk makes current for the record.
LoadedFor(rec) ==
    loadChunk(chunk, Disk, Atoi(field(rec, 0)).val, Atoi(field(rec, 1)).val,
              Atoi(field(rec, 2)).val)
\* The string leaves of a tree, as <<path, value>>.
LeafSet(tree) == {findStrings(tree)[n] : n \in 1..Len(findStrings(tree))}

\* C11: a record that sets a string leaf to the value it has leaves the
\* loaded tree and the updates counter as loadChunk left them, and a chunk
\* that received no edit with a new value is never written.
C11_SameValueIsNoOp ==
    /\ [](written \subseteq edited)
    /\ [][(Reading /\ ~IsHeader /\ WellFormed(ThisRec)
           /\ ~LoadedFor(ThisRec).err
           /\ <<field(ThisRec, 3), valueField(ThisRec)>>
                \in LeafSet(LoadedFor(ThisRec).chunk.nbt))
          => chunk' = LoadedFor(ThisRec).chunk]_vars

C11_Witness ==
    /\ PatchOk /\ ~stream /\ ~scripted /\ line >= 3
    /\ ~chunk.nil /\ chunk.updates = 0
    /\ written = {} /\ edited = {} /\ Disk = pre

\* C12: when patchString returns an error, the loaded tree and the updates
\* counter are as loadChunk left them.
C12_ErrorMutatesNothing ==
    [][(Reading /\ ~IsHeader /\ WellFormed(ThisRec) /\ error'.kind = "patch")
       => (/\ ~LoadedFor(ThisRec).err
           /\ chunk' = LoadedFor(ThisRec).chunk)]_vars

C12_Witness ==
    /\ PatchDone /\ scripted /\ error.kind = "patch" /\ line = 2
    /\ ~chunk.nil /\ chunk.updates = 1

\* The tree with every string emptied: its compounds' key sets, its lists'
\* lengths, every node's kind and every non-string value.
RECURSIVE Shape(_)
Shape(tree) ==
    CASE tree.t = "str" -> Str("")
      [] tree.t = "comp" -> Comp([k \in DOMAIN tree.v |-> Shape(tree.v[k])])
      [] tree.t = "list" -> List([k \in 1..Len(tree.v) |-> Shape(tree.v[k])])
      [] OTHER -> tree

\* C13: a successful patchString changes at most the addressed string leaf:
\* key sets, list lengths, node kinds, non-string values and every other
\* string leaf of the loaded tree are kept.
C13_OnlyAddressedLeaf ==
    [][(Reading /\ ~IsHeader /\ WellFormed(ThisRec)
        /\ ~LoadedFor(ThisRec).err /\ pc' = "patch")
       => LET old == LoadedFor(ThisRec).chunk.nbt
              was == findStrings(old)
              now == findStrings(chunk'.nbt)
          IN  /\ Shape(chunk'.nbt) = Shape(old)
              /\ Len(now) = Len(was)
              /\ \A n \in 1..Len(was) :
                    /\ now[n][1] = was[n][1]
                    /\ was[n][1] # field(ThisRec, 3) => now[n][2] = was[n][2]]_vars

C13_Witness ==
    /\ pc = "patch" /\ ~stream /\ ~chunk.nil /\ chunk.updates = 1
    /\ Len(findStrings(chunk.nbt)) > 1
    /\ \E n \in 1..Len(findStrings(chunk.nbt)) : findStrings(chunk.nbt)[n][2] = "x"

\* The record names a string leaf the file holds.
Names(d, rec) ==
    /\ WellFormed(rec)
    /\ Atoi(field(rec, 0)).val = 0
    /\ Atoi(field(rec, 1)).val \in 0..(RegionWidth - 1)
    /\ Atoi(field(rec, 2)).val \in 0..(RegionWidth - 1)
    /\ LET idx == SlotIndex(Atoi(field(rec, 1)).val, Atoi(field(rec, 2)).val)
       IN  /\ idx \in DOMAIN d.locs
           /\ Leaves(d)[idx].ok
           /\ \E n \in 1..Len(Leaves(d)[idx].leaves) :
                 Leaves(d)[idx].leaves[n][1] = field(rec, 3)

\* The leaves of every slot after the records have been applied in order.
RECURSIVE Patched(_, _)
Patched(ls, recs) ==
    IF recs = <<>> THEN ls
    ELSE Patched([ls EXCEPT ![SlotIndex(Atoi(field(Head(recs), 1)).val,
                                        Atoi(field(Head(recs), 2)).val)].leaves =
                     SetLeaf(@, field(Head(recs), 3), valueField(Head(recs)))],
                 Tail(recs))

\* A run over the three records of DistinctLeaves, in any order, all three
\* naming leaves of a file that is a whole number of sectors long.
OrderedRun ==
    /\ PatchDone /\ scripted
    /\ pre.fsize % SectorSize = 0
    /\ Len(strings) = 3
    /\ {strings[k] : k \in 1..3} = DistinctLeaves
    /\ \A r \in DistinctLeaves : Names(pre, r)

\* C14: records that name pairwise distinct leaves may come in any order,
\* chunks interleaved: every permutation ends successfully and leaves the
\* same decoded contents.
C14_OrderIndependent ==
    OrderedRun => (status = "ok" /\ Leaves(Disk) = Patched(Leaves(pre), strings))

\* C15: a patchString error ends the run at that record; the error names the
\* record's line, dimension and chunk coordinates; the chunk the record
\* named is not written, and a run whose first applied record fails leaves
\* the file as it was; no later record is read.
C15_FailureAborts ==
    /\ [][(pc = "patch" /\ error'.kind = "patch")
          => (/\ pc' = "idle" /\ status' = "err"
              /\ ~stream => (/\ error'.line = Len(strings) - Len(csv) + 1
                             /\ error'.dim = Atoi(field(ThisRec, 0)).val
                             /\ error'.x = Atoi(field(ThisRec, 1)).val
                             /\ error'.z = Atoi(field(ThisRec, 2)).val)
              /\ error'.line = line'
              /\ ~chunk'.nil /\ chunk'.dim = error'.dim
              /\ chunk'.x = error'.x /\ chunk'.z = error'.z
              /\ flush'.did => (/\ ~chunk.nil
                                /\ flush'.idx = SlotIndex(chunk.x, chunk.z)
                                /\ flush'.idx # SlotIndex(error'.x, error'.z))
              /\ ~flush'.did => Disk' = Disk
              /\ chunk.nil => Disk' = pre)]_vars
    /\ []((PatchDone /\ error.kind = "patch") => line = error.line)

C15_Witness ==
    /\ PatchDone /\ scripted /\ error.kind = "patch" /\ error.line = 2
    /\ flush.did /\ flush.ok /\ written # {}
    /\ SlotIndex(error.x, error.z) \notin written

\* C16: a record whose dimension, chunk_x or chunk_z is no integer, or whose
\* path is empty, is skipped: the run goes on, the loaded chunk, its updates
\* counter and the files are as before, and the records after it are applied
\* as if it were absent.
C16_MalformedSkipped ==
    /\ [][(Reading /\ ~IsHeader /\ ~WellFormed(ThisRec))
          => (/\ pc' = "patch" /\ status' = status /\ error' = error
              /\ chunk' = chunk /\ shouldCompact' = shouldCompact
              /\ Disk' = Disk /\ other' = other
              /\ csv' = Tail(csv))]_vars
    /\ []((/\ PatchDone /\ scripted /\ Len(strings) = 3
           /\ ~WellFormed(strings[2])
           /\ Names(pre, strings[1]) /\ Names(pre, strings[3]))
          => (/\ status = "ok"
              /\ Leaves(Disk) = Patched(Leaves(pre), <<strings[1], strings[3]>>)))

C16_Witness ==
    /\ PatchOk /\ scripted /\ Len(strings) = 3 /\ ~WellFormed(strings[2])
    /\ written = {0, 1}
    /\ Leaves(Disk) = Patched(Leaves(pre), <<strings[1], strings[3]>>)
    /\ Leaves(Disk) # Leaves(pre)

\* Two populated entries share a sector, or a populated entry covers
\* sector 0 or 1.
SharedSector(d) ==
    \E i \in Populated(d) : \E j \in Populated(d) \ {i} :
        Range(d.locs[i]) \cap Range(d.locs[j]) # {}

HeaderSector(d) == \E i \in Populated(d) : Range(d.locs[i]) \cap {0, 1} # {}

CompactDone == pc = "idle" /\ lastOp = "compact"

\* C17: on a file where two populated entries share a sector, or an entry
\* covers sector 0 or 1, compact fails with the overlapping-sectors error
\* and the file is byte for byte what it was.
C17_OverlapRejected ==
    (CompactDone /\ pre.fsize >= SectorSize /\ (SharedSector(pre) \/ HeaderSector(pre)))
        => (status = "err" /\ error.kind = "overlap" /\ Disk = pre)

C17_Witness ==
    /\ CompactDone /\ SharedSector(pre) /\ ~HeaderSector(pre)
    /\ error.kind = "overlap" /\ Disk = pre

\* C18: when compactRegion fails on r.0.0.mca its table is as it was, and
\* the other region file of the world, r.0.1.mca, is compacted all the same.
C18_OthersStillCompacted ==
    (CompactDone /\ status = "err" /\ error.z = 0)
        => (locs = pre.locs /\ other = compactRegion(DiskOther).disk)

ExtractDone == pc = "idle" /\ lastOp = "extract"

\* C19: when readRegion fails on the table or on a chunk of a region file,
\* extract ends in failure; it does not go on and report success.
C19_ReadFailureIsFatal ==
    (ExtractDone /\ readRegion(Disk, 0, 0, 0, SortInts(DOMAIN locs)).err)
        => (status = "err" /\ error.kind = "read")

\* The chunk coordinates of the record a one-record run was started with.
AskedX == Atoi(field(strings[1], 1)).val
AskedZ == Atoi(field(strings[1], 2)).val

\* C20: chunkPos(x, z) = (RX, RZ, dx, dz) has 0 <= dx, dz < 32, RX*32+dx = x
\* and RZ*32+dz = z, for negative coordinates too; the row extract writes
\* for region (RX, RZ) and table index i leads chunkPos back to that region
\* and to the table slot at byte 4*i.
C20_ChunkPos ==
    (lastOp = "patch" /\ scripted /\ Len(strings) = 1 /\ WellFormed(strings[1]))
        => LET p == chunkPos(AskedX, AskedZ)
               i == (AskedZ % RegionWidth) * RegionWidth + (AskedX % RegionWidth)
           IN  /\ p.dx \in 0..(RegionWidth - 1) /\ p.dz \in 0..(RegionWidth - 1)
               /\ p.rx * RegionWidth + p.dx = AskedX
               /\ p.rz * RegionWidth + p.dz = AskedZ
               /\ strings = chunkRows(0, p.rx, p.rz, i, TreeSign(valueField(strings[1])))
                    => 4 * SlotIndex(AskedX, AskedZ) = 4 * i
               /\ error.kind = "open" => (error.x = p.rx /\ error.z = p.rz)
               /\ (pc = "idle" /\ error.kind # "open") => (p.rx = 0 /\ p.rz = 0)
               /\ ~chunk.nil => SlotIndex(chunk.x, chunk.z) = i

C20_Witness ==
    /\ PatchDone /\ scripted /\ Len(strings) = 1
    /\ AskedX = -1 /\ AskedZ = -1
    /\ strings \in ExtractedRows
    /\ error.kind = "open" /\ error.x = -1 /\ error.z = -1
    /\ 4 * SlotIndex(AskedX, AskedZ) = 4092

\* The table index of the chunk a record names.
RecSlot(rec) == SlotIndex(Atoi(field(rec, 1)).val, Atoi(field(rec, 2)).val)

\* The record names a chunk of the region file other than the loaded one.
Switches(rec) ==
    /\ WellFormed(rec)
    /\ Atoi(field(rec, 0)).val = 0
    /\ chunkPos(Atoi(field(rec, 1)).val, Atoi(field(rec, 2)).val).rx = 0
    /\ chunkPos(Atoi(field(rec, 1)).val, Atoi(field(rec, 2)).val).rz = 0
    /\ ~chunk.nil
    /\ <<chunk.x, chunk.z>> # <<Atoi(field(rec, 1)).val, Atoi(field(rec, 2)).val>>

\* C21: one chunk is loaded at a time; when a record names another chunk
\* the loaded chunk is flushed before the new one is read, and a chunk that
\* was flushed earlier in the run is reloaded with the edits it was flushed
\* with.
C21_ReloadSeesFlushedEdits ==
    [][(Reading /\ ~IsHeader /\ Switches(ThisRec) /\ RecSlot(ThisRec) \in written)
       => (/\ ~LoadedFor(ThisRec).err
           /\ findStrings(LoadedFor(ThisRec).chunk.nbt) = want[RecSlot(ThisRec)].leaves
           /\ LoadedFor(ThisRec).chunk.updates = 0)]_vars

\* The step evicts the loaded chunk: the input has ended, or the record
\* names another chunk.
Evicts ==
    /\ pc = "patch" /\ ~stream /\ ~chunk.nil
    /\ \/ csv = <<>>
       \/ /\ ~IsHeader /\ WellFormed(ThisRec)
          /\ <<chunk.dim, chunk.x, chunk.z>>
               # <<Atoi(field(ThisRec, 0)).val, Atoi(field(ThisRec, 1)).val,
                   Atoi(field(ThisRec, 2)).val>>

\* C22: a chunk is written exactly when it is evicted with updates > 0, at
\* most once per load; a chunk with updates = 0 is evicted without a write;
\* a run that ends successfully has written every chunk it changed.
C22_Lifecycle ==
    /\ [][(pc = "patch" /\ ~stream)
          => (/\ flush'.did = (Evicts /\ chunk.updates > 0)
              /\ flush'.did => (/\ flush'.idx = SlotIndex(chunk.x, chunk.z)
                                /\ flush'.nbt = chunk.nbt
                                /\ pc' = "patch" =>
                                     (/\ <<chunk'.x, chunk'.z>> # <<chunk.x, chunk.z>>
                                      /\ chunk'.updates <= 1))
              /\ ~flush'.did => Disk' = Disk)]_vars
    /\ [](PatchOk => edited \subseteq written)

C22_Witness ==
    /\ PatchOk /\ scripted /\ shouldCompact
    /\ edited = written /\ Cardinality(written) = 2
    /\ flush.did /\ flush.ok

\* One step down a tree: into the value of a key, or into a list element
\* (idx counts from 0).
ByKey(k) == [list |-> FALSE, key |-> k, idx |-> 0]
ByIndex(i) == [list |-> TRUE, key |-> <<>>, idx |-> i]

\* The ways from the root of a tree to its string nodes.
RECURSIVE StrLocs(_)
StrLocs(tree) ==
    CASE tree.t = "str" -> {<<>>}
      [] tree.t = "comp" ->
            UNION {{<<ByKey(k)>> \o l : l \in StrLocs(tree.v[k])} : k \in DOMAIN tree.v}
      [] tree.t = "list" ->
            UNION {{<<ByIndex(i - 1)>> \o l : l \in StrLocs(tree.v[i])} :
                      i \in 1..Len(tree.v)}
      [] OTHER -> {}

\* The node a way leads to.
RECURSIVE Follow(_, _)
Follow(tree, way) ==
    IF way = <<>> THEN tree
    ELSE Follow(IF Head(way).list THEN tree.v[Head(way).idx + 1]
                ELSE tree.v[Head(way).key],
                Tail(way))

\* The path of a way: [i] for an index, the name for a key, a '/' before
\* every name but the first segment.
RECURSIVE PathOf(_, _)
PathOf(way, sofar) ==
    IF way = <<>> THEN sofar
    ELSE PathOf(Tail(way),
                IF Head(way).list
                THEN sofar \o <<"[">> \o Itoa(Head(way).idx) \o <<"]">>
                ELSE IF sofar = <<>> THEN Head(way).key
                ELSE sofar \o <<"/">> \o Head(way).key)

\* Document order: at the first step that differs, the smaller key
\* (bytewise) or the smaller index.
RECURSIVE Before(_, _)
Before(a, b) ==
    IF a = <<>> \/ b = <<>> THEN a = <<>> /\ b # <<>>
    ELSE IF Head(a) = Head(b) THEN Before(Tail(a), Tail(b))
    ELSE IF Head(a).list THEN Head(a).idx < Head(b).idx
    ELSE StrLess(Head(a).key, Head(b).key)

\* The chunk trees of the state: the decodable chunks of the file and the
\* loaded chunk.
TreesHere ==
    {readChunk(Disk, locOffset(locs[i]), locSize(locs[i])).nbt :
        i \in {j \in Populated(Disk) :
                 ~readChunk(Disk, locOffset(locs[j]), locSize(locs[j])).err}}
      \cup (IF chunk.nil THEN {} ELSE {chunk.nbt})

EnumeratesLeaves(tree) ==
    LET found == findStrings(tree)
        ways == StrLocs(tree)
        wayOf(n) == CHOOSE w \in ways : PathOf(w, <<>>) = found[n][1]
    IN  /\ Len(found) = Cardinality(ways)
        /\ \A n \in 1..Len(found) :
              /\ \E w \in ways : PathOf(w, <<>>) = found[n][1]
              /\ Follow(tree, wayOf(n)) = Str(found[n][2])
        /\ \A n, m \in 1..Len(found) : n < m => Before(wayOf(n), wayOf(m))

\* C23: findStrings calls back once for every string of the tree and for
\* nothing else, compound keys in ascending bytewise order, list elements
\* in ascending index order, the path made of names joined with '/' and
\* indices appended as [i].
C23_Enumerate == \A tree \in TreesHere : EnumeratesLeaves(tree)

C23_Witness ==
    /\ ~chunk.nil /\ chunk.updates > 0
    /\ Cardinality(StrLocs(chunk.nbt)) = 2
    /\ \E w \in StrLocs(chunk.nbt) : Len(w) = 3 /\ w[2].list /\ w[3].list
    /\ \E w \in StrLocs(chunk.nbt) : Len(w) = 3 /\ w[2].list /\ ~w[3].list

\* The whole sectors that hold the 4-byte length and length more bytes.
NeededSectors(length) == (length + 4 + SectorSize - 1) \div SectorSize

\* The last step wrote a chunk whose sector count differs from the count
\* its table entry had.
CountChanged(fl) == fl.did /\ fl.ok /\ NeededSectors(fl.length) # LocCount(fl.oldLoc)

\* C24: shouldCompact starts FALSE and becomes TRUE exactly with the first
\* flush that changes a chunk's sector count (growth, also in place at the
\* end of the file, or shrinking); a flush that keeps the count leaves the
\* table and the flag alone.
C24_ShouldCompact ==
    /\ [][(pc = "idle" /\ pc' = "patch") => ~shouldCompact']_vars
    /\ [][pc = "patch"
          => (/\ shouldCompact' = (shouldCompact \/ CountChanged(flush'))
              /\ CountChanged(flush')
                   => LocCount(locs'[flush'.idx]) = NeededSectors(flush'.length)
              /\ (flush'.did /\ flush'.ok /\ ~CountChanged(flush')) => locs' = locs)]_vars

\* A chunk at the end of the file that grew where it was.
C24_Witness ==
    /\ PatchOk /\ shouldCompact /\ flush.did /\ flush.ok
    /\ LocStart(flush.newLoc) = LocStart(flush.oldLoc)
    /\ LocCount(flush.newLoc) > LocCount(flush.oldLoc)
    /\ flush.endAfter > flush.endBefore

\* C25: for every populated entry with a count in 1..255, the byte offset
\* extract and patch use is start * 4096 and the read limit is count * 4096,
\* the sector compact addresses for the entry.
C25_OffsetNoWrap ==
    \A i \in Populated(Disk) :
        LocCount(locs[i]) \in 1..MaxSectorCount
            => (/\ locOffset(locs[i]) = LocStart(locs[i]) * SectorSize
                /\ locSize(locs[i]) = LocCount(locs[i]) * SectorSize)

\* A populated entry as the format has it.
EntryInRange(loc) == LocStart(loc) >= 2 /\ LocCount(loc) \in 1..MaxSectorCount

\* C26: after a successful compact every populated entry has start >= 2 and
\* a count in 1..255, also when the table held a non-zero entry with count
\* 0; after a successful flush the entry of the flushed chunk has.
C26_EntriesInRange ==
    /\ CompactOk => \A i \in Populated(Disk) : EntryInRange(locs[i])
    /\ (lastOp = "patch" /\ Flushed) => EntryInRange(flush.newLoc)

\* The sorted list of occupied sectors compactRegion builds for a file.
SortedSectors(d) ==
    sortSectors(<<0, 1>> \o occupiedSectors(d, SortInts(DOMAIN d.locs)))

\* C27: when no sector appears twice in the sorted list, the old sector j at
\* index i has i <= j and a copy to i overwrites no sector read later; the
\* 'cannot relocate sector later in file' error is never returned.
C27_NoBackwardRelocation ==
    /\ ~hasOverlap(SortedSectors(Disk))
         => \A i \in 0..(Len(SortedSectors(Disk)) - 1) :
               /\ i <= SortedSectors(Disk)[i + 1]
               /\ \A k \in (i + 1)..(Len(SortedSectors(Disk)) - 1) :
                     SortedSectors(Disk)[k + 1] # i
    /\ CompactDone => error.kind # "backward"

C27_Witness ==
    /\ CompactOk /\ ~hasOverlap(SortedSectors(pre))
    /\ \E i \in 0..(Len(SortedSectors(pre)) - 1) : i < SortedSectors(pre)[i + 1]
    /\ locs # pre.locs /\ fsize < pre.fsize

\* Every populated entry's sectors lie inside the file.
InsideFile(d) ==
    \A i \in Populated(d) :
        (LocStart(d.locs[i]) + LocCount(d.locs[i])) * SectorSize <= d.fsize

\* Allocations disjoint, behind the two header sectors, inside the file.
SoundFile(d) == ~SharedSector(d) /\ ~HeaderSector(d) /\ InsideFile(d)

PatchNth(tree, n) == patchString(Chunk(0, 0, 0, tree), findStrings(tree)[n][1], "x")

\* C29: every path findStrings emits for a string of a chunk tree is
\* accepted by patchString and addresses that string and no other, also
\* for a list directly inside a list and a compound inside a list element.
C29_EmittedPathsPatch ==
    \A tree \in TreesHere : \A n \in 1..Len(findStrings(tree)) :
        /\ ~PatchNth(tree, n).err
        /\ findStrings(PatchNth(tree, n).chunk.nbt)
             = [k \in 1..Len(findStrings(tree)) |->
                  IF k = n THEN <<findStrings(tree)[n][1], "x">>
                  ELSE findStrings(tree)[k]]

\* C30: a successful compact run or patch flush on a file with disjoint
\* allocations inside the file leaves every populated entry's sectors
\* inside the file: (start + count) * 4096 <= file length.
C30_AllocationsInsideFile ==
    [][(/\ SoundFile(Disk)
        /\ \/ pc = "idle" /\ lastOp' = "compact" /\ runs' # runs /\ status' = "ok"
           \/ pc = "patch" /\ flush'.did /\ flush'.ok)
       => InsideFile(Disk')]_vars

====
